---- MODULE Spec2Model ----
(***************************************************************************)
(* flexi-cache-node: NodeCache (TTL + history store), TagCache (tag index) *)
(* and LRUCache (recency list), as state machines over their in-memory     *)
(* state.  Each public method is an operator from the object, as a record, *)
(* to the object after the call; a call of this.delete or this.get inside  *)
(* a method is resolved by the class that was constructed.                 *)
(*                                                                         *)
(* Encodings.  A JS Map of entries is a sequence of entries in insertion   *)
(* order.  An optional number (a ttl argument, an entry's ttl) is a        *)
(* sequence of length <= 1: << >> is undefined.  undefined as a returned   *)
(* value is the string Undefined; a null node reference is the string      *)
(* Null; stored values are defined values.  Time is Date.now() in          *)
(* milliseconds, ttl arguments and stdTTL are seconds.  A snapshot file is *)
(* << >> when it does not exist and <<content>> otherwise; its content is  *)
(* a record of bytes: whether they are an AES-256-GCM envelope, the key    *)
(* and IV the envelope was made with, the JSON text they carry, and        *)
(* whether the text is whole.  A file that is open for writing, or was     *)
(* left so, holds Torn, whose text is not whole.  The size option is a     *)
(* JavaScript number: options.size units and options.half halves.          *)
(***************************************************************************)
EXTENDS Integers, Sequences, FiniteSets, TLC

VARIABLES
    variant,   \* which class was constructed: "store", "tag" or "lru"
    options,   \* this.options (validated)
    store,     \* this.store : Map<string, CacheEntry>
    stats,     \* this.stats : {hits, misses, keys}
    tagMap,    \* TagCache.tagMap : Map<string, Set<string>>
    head,      \* LRUCache.head
    tail,      \* LRUCache.tail
    nodes,     \* LRUCache.nodes : Map<string, LRUNode>
    now,       \* Date.now()
    events,    \* the events emitted by the last step, in order
    last,      \* the last step: the operation's name, key, tag and result
    client,    \* the keys, values, ttls and tag arrays the client calls with, and
               \* the milliseconds that pass between two of its calls
    recency,   \* history variable: the stored keys, most recently used first
    disk,      \* the snapshot file at the instance's persistence path
    io,        \* the persistence folder: whether it exists, the temporary file
               \* beside the snapshot file, and the saves in flight
    checkInterval  \* this.checkInterval: << >> for null, or <<timer>> with the
                   \* time the timer is next due and whether it was cleared

vars == <<variant, options, store, stats, tagMap, head, tail, nodes, now, events, last,
          client, recency, disk, io, checkInterval>>

----------------------------------------------------------------------------
(* Bounds of the model *)

MaxNow == 2000
TickMs == 500
MaxSize == 2
MaxHistory == 2
MaxLookups == 2
MaxSaves == 2
MaxFaultySaves == 1
MaxFirings == 2

\* the least checkperiod validateOptions accepts when the timer is enabled, in seconds
MinCheckperiod == 30

(* Program constants *)

MsPerSec == 1000

Undefined == "undefined"
Null == "null"

Keys == {"a", "b", "c"}
Values == {"v1", "v2"}
Tags == {"t1", "t2"}
TtlArgs == {<< >>, <<0>>, <<1>>}
TagArgs == {<< >>, <<"t1">>, <<"t2">>, <<"t1", "t2">>}
Secrets == {"secret-one", "secret-two"}
IVs == {1, 2}

----------------------------------------------------------------------------
(* Map<string, CacheEntry> *)

MapHas(m, key) == \E i \in 1..Len(m) : m[i].key = key

MapIndex(m, key) == CHOOSE i \in 1..Len(m) : m[i].key = key

MapGet(m, key) == m[MapIndex(m, key)]

\* Map.set: an existing key keeps its position, a new key goes last
MapSet(m, entry) ==
    IF MapHas(m, entry.key)
    THEN [m EXCEPT ![MapIndex(m, entry.key)] = entry]
    ELSE Append(m, entry)

MapDelete(m, key) == SelectSeq(m, LAMBDA e : e.key # key)

MapKeys(m) == {m[i].key : i \in 1..Len(m)}

SetOf(arr) == {arr[i] : i \in 1..Len(arr)}

\* new Map() of a map keyed by strings (the tag index, the key->node lookup)
EmptyMap == [x \in {} |-> {}]

----------------------------------------------------------------------------
(* The object the methods act on, as a record *)

This ==
    [store |-> store, stats |-> stats, events |-> << >>, tagMap |-> tagMap,
     head |-> head, tail |-> tail, nodes |-> nodes, ret |-> Undefined, out |-> << >>]

Emit(S, ev) == [S EXCEPT !.events = Append(@, ev)]

----------------------------------------------------------------------------
(* NodeCache *)

RECURSIVE ShiftHistory_Pop(_)
\* a slip: the cap drops the newest previous value instead of the oldest
ShiftHistory_Pop(history) ==
    IF Len(history) > options.versionHistory
    THEN ShiftHistory_Pop(SubSeq(history, 1, Len(history) - 1))
    ELSE history

RECURSIVE ShiftHistory(_)
\* while (history.length > versionHistory) history.shift()
ShiftHistory(history) ==
    IF Len(history) > options.versionHistory
    THEN ShiftHistory(Tail(history))
    ELSE history

\* expired, as get and sweepExpired test it
Expired(entry, t) ==
    /\ entry.ttl # << >>
    /\ entry.ttl[1] # 0
    /\ t > entry.createdAt + entry.ttl[1]

\* store.size >= this.options.size, the size being a number of JavaScript:
\* options.size units and options.half halves of a unit
SizeReached(entries) == 2 * Len(entries) >= 2 * options.size + options.half

\* a slip: (ttl || stdTTL), so that a ttl of 0 falls back to the default
NodeCache_set_ZeroIsDefault(S, key, value, ttl, tags) ==
    IF SizeReached(S.store) /\ ~MapHas(S.store, key)
    THEN [S EXCEPT !.ret = "CacheError"]
    ELSE
        LET effectiveTTLms ==
                (IF ttl = << >> \/ ttl = <<0>> THEN options.stdTTL ELSE ttl[1]) * MsPerSec
            history ==
                IF MapHas(S.store, key)
                THEN ShiftHistory(Append(MapGet(S.store, key).history,
                                         MapGet(S.store, key).value))
                ELSE << >>
            entry ==
                [key |-> key,
                 value |-> value,
                 ttl |-> IF effectiveTTLms # 0 THEN <<effectiveTTLms>> ELSE << >>,
                 tags |-> SetOf(tags),
                 history |-> history,
                 createdAt |-> now]
            newStore == MapSet(S.store, entry)
        IN  Emit([S EXCEPT !.store = newStore,
                           !.stats.keys = Len(newStore),
                           !.ret = "ok"],
                 <<"set", key, value>>)

\* a slip: the capacity test counts the live entries only
NodeCache_set_CountsLive(S, key, value, ttl, tags) ==
    IF SizeReached(SelectSeq(S.store, LAMBDA e : ~Expired(e, now))) /\ ~MapHas(S.store, key)
    THEN [S EXCEPT !.ret = "CacheError"]
    ELSE
        LET effectiveTTLms == (IF ttl = << >> THEN options.stdTTL ELSE ttl[1]) * MsPerSec
            history ==
                IF MapHas(S.store, key)
                THEN ShiftHistory(Append(MapGet(S.store, key).history,
                                         MapGet(S.store, key).value))
                ELSE << >>
            entry ==
                [key |-> key,
                 value |-> value,
                 ttl |-> IF effectiveTTLms # 0 THEN <<effectiveTTLms>> ELSE << >>,
                 tags |-> SetOf(tags),
                 history |-> history,
                 createdAt |-> now]
            newStore == MapSet(S.store, entry)
        IN  Emit([S EXCEPT !.store = newStore,
                           !.stats.keys = Len(newStore),
                           !.ret = "ok"],
                 <<"set", key, value>>)

NodeCache_set(S, key, value, ttl, tags) ==
    IF SizeReached(S.store) /\ ~MapHas(S.store, key)
    THEN [S EXCEPT !.ret = "CacheError"]
    ELSE
        LET effectiveTTLms == (IF ttl = << >> THEN options.stdTTL ELSE ttl[1]) * MsPerSec
            history ==
                IF MapHas(S.store, key)
                THEN ShiftHistory(Append(MapGet(S.store, key).history,
                                         MapGet(S.store, key).value))
                ELSE << >>
            entry ==
                [key |-> key,
                 value |-> value,
                 ttl |-> IF effectiveTTLms # 0 THEN <<effectiveTTLms>> ELSE << >>,
                 tags |-> SetOf(tags),
                 history |-> history,
                 createdAt |-> now]
            newStore == MapSet(S.store, entry)
        IN  Emit([S EXCEPT !.store = newStore,
                           !.stats.keys = Len(newStore),
                           !.ret = "ok"],
                 <<"set", key, value>>)

\* a slip: "del" is emitted whether or not the key was stored
NodeCache_delete_AlwaysEmits(S, key) ==
    Emit([S EXCEPT !.store = MapDelete(S.store, key),
                   !.stats.keys = IF MapHas(S.store, key) THEN Len(S.store) - 1 ELSE @,
                   !.ret = IF MapHas(S.store, key) THEN "true" ELSE "false"],
         <<"del", key>>)

NodeCache_delete(S, key) ==
    IF MapHas(S.store, key)
    THEN Emit([S EXCEPT !.store = MapDelete(S.store, key),
                        !.stats.keys = Len(S.store) - 1,
                        !.ret = "true"],
              <<"del", key>>)
    ELSE [S EXCEPT !.ret = "false"]

NodeCache_clear(S) ==
    Emit([S EXCEPT !.store = << >>, !.stats.keys = 0, !.ret = Undefined], <<"clear">>)

\* a slip: Math.floor for Math.ceil
getTTL_Floor(key) ==
    IF ~MapHas(store, key) THEN << >>
    ELSE LET e == MapGet(store, key) IN
         IF e.ttl = << >> \/ e.ttl[1] = 0 THEN << >>
         ELSE LET remainingMs == e.createdAt + e.ttl[1] - now IN
              IF remainingMs > 0 THEN <<remainingMs \div MsPerSec>> ELSE << >>

\* Remaining TTL in seconds as << n >>, or << >> for undefined
getTTL(key) ==
    IF ~MapHas(store, key) THEN << >>
    ELSE LET e == MapGet(store, key) IN
         IF e.ttl = << >> \/ e.ttl[1] = 0 THEN << >>
         ELSE LET remainingMs == e.createdAt + e.ttl[1] - now IN
              IF remainingMs > 0
              THEN <<(remainingMs + MsPerSec - 1) \div MsPerSec>>
              ELSE << >>

getStats == [hits |-> stats.hits, misses |-> stats.misses, keys |-> Len(store)]

getKeys == [i \in 1..Len(store) |-> store[i].key]

Reverse(s) == [i \in 1..Len(s) |-> s[Len(s) + 1 - i]]

getHistory(key) ==
    IF MapHas(store, key) THEN Reverse(MapGet(store, key).history) ELSE << >>

RECURSIVE SweepFrom_ViaDelete(_, _, _)
\* a slip: the purge goes through delete(), which emits "del" as well
SweepFrom_ViaDelete(S, m, i) ==
    IF i > Len(m) THEN S
    ELSE IF Expired(m[i], now) /\ options.deleteOnExpire
         THEN SweepFrom_ViaDelete(Emit(NodeCache_delete(S, m[i].key),
                                       <<"expired", m[i].key, m[i].value>>),
                                  m, i + 1)
         ELSE SweepFrom_ViaDelete(S, m, i + 1)

RECURSIVE SweepFrom(_, _, _)
\* for (const [key, value] of this.store): the entries of m still to visit
SweepFrom(S, m, i) ==
    IF i > Len(m) THEN S
    ELSE IF Expired(m[i], now) /\ options.deleteOnExpire
         THEN SweepFrom(Emit([S EXCEPT !.store = MapDelete(S.store, m[i].key)],
                             <<"expired", m[i].key, m[i].value>>),
                        m, i + 1)
         ELSE SweepFrom(S, m, i + 1)

NodeCache_sweepExpired(S) ==
    LET R == SweepFrom(S, S.store, 1)
    IN  [R EXCEPT !.stats.keys = Len(R.store), !.ret = Undefined]

----------------------------------------------------------------------------
(* TagCache: the tag index and the methods that do not read through get *)

TagMapHas(tm, tag) == tag \in DOMAIN tm

TagMapDelete(tm, tag) == [t \in DOMAIN tm \ {tag} |-> tm[t]]

\* set.delete(key); if (set.size === 0) this.tagMap.delete(tag)
UntagOne(tm, tag, key) ==
    IF TagMapHas(tm, tag)
    THEN IF tm[tag] \ {key} = {}
         THEN TagMapDelete(tm, tag)
         ELSE [tm EXCEPT ![tag] = @ \ {key}]
    ELSE tm

RECURSIVE Untag(_, _, _)
\* for (const tag of entry.tags) { ... }
Untag(tm, tags, key) ==
    IF tags = {} THEN tm
    ELSE LET tag == CHOOSE t \in tags : TRUE
         IN  Untag(UntagOne(tm, tag, key), tags \ {tag}, key)

\* if (!this.tagMap.has(tag)) this.tagMap.set(tag, new Set()); this.tagMap.get(tag).add(key)
TagOne(tm, tag, key) ==
    IF TagMapHas(tm, tag)
    THEN [tm EXCEPT ![tag] = @ \cup {key}]
    ELSE [t \in DOMAIN tm \cup {tag} |-> IF t = tag THEN {key} ELSE tm[t]]

RECURSIVE TagAll(_, _, _, _)
\* for (const tag of tags) { ... }, tags the array given to set
TagAll(tm, tags, i, key) ==
    IF i > Len(tags) THEN tm
    ELSE TagAll(TagOne(tm, tags[i], key), tags, i + 1, key)

\* a slip: the key is indexed under its new tags before the store accepts the write
TagCache_set_IndexFirst(S, key, value, ttl, tags) ==
    LET S1 == IF MapHas(S.store, key)
              THEN [S EXCEPT !.tagMap = Untag(S.tagMap, MapGet(S.store, key).tags, key)]
              ELSE S
    IN  NodeCache_set([S1 EXCEPT !.tagMap = TagAll(S1.tagMap, tags, 1, key)],
                      key, value, ttl, tags)

TagCache_set(S, key, value, ttl, tags) ==
    LET S1 == IF MapHas(S.store, key)
              THEN [S EXCEPT !.tagMap = Untag(S.tagMap, MapGet(S.store, key).tags, key)]
              ELSE S
        S2 == NodeCache_set(S1, key, value, ttl, tags)
    IN  IF S2.ret = "CacheError" THEN S2
        ELSE [S2 EXCEPT !.tagMap = TagAll(S2.tagMap, tags, 1, key)]

\* a slip: the tag is put on the entry and not in the index
TagCache_addTagToKey_EntryOnly(S, key, tag) ==
    IF ~MapHas(S.store, key) THEN [S EXCEPT !.ret = Undefined]
    ELSE [S EXCEPT !.store[MapIndex(S.store, key)].tags = @ \cup {tag},
                   !.ret = Undefined]

TagCache_addTagToKey(S, key, tag) ==
    IF ~MapHas(S.store, key) THEN [S EXCEPT !.ret = Undefined]
    ELSE [S EXCEPT !.store[MapIndex(S.store, key)].tags = @ \cup {tag},
                   !.tagMap = TagOne(S.tagMap, tag, key),
                   !.ret = Undefined]

\* a slip: delete forgets the tag index
TagCache_delete_NoUntag(S, key) == NodeCache_delete(S, key)

TagCache_delete(S, key) ==
    LET S1 == IF MapHas(S.store, key)
              THEN [S EXCEPT !.tagMap = Untag(S.tagMap, MapGet(S.store, key).tags, key)]
              ELSE S
    IN  NodeCache_delete(S1, key)

getKeysByTag(tag) == IF TagMapHas(tagMap, tag) THEN tagMap[tag] ELSE {}

RECURSIVE DeleteEach(_, _)
\* for (const k of [...keys]) this.delete(k)
DeleteEach(S, keys) ==
    IF keys = {} THEN S
    ELSE LET k == CHOOSE x \in keys : TRUE
         IN  DeleteEach(TagCache_delete(S, k), keys \ {k})

TagCache_deleteTag(S, tag) ==
    IF ~TagMapHas(S.tagMap, tag) THEN [S EXCEPT !.ret = Undefined]
    ELSE LET S1 == DeleteEach(S, S.tagMap[tag])
         IN  [S1 EXCEPT !.tagMap = TagMapDelete(S1.tagMap, tag), !.ret = Undefined]

\* a slip: the entries go, the tag index stays
TagCache_clear_KeepsIndex(S) == NodeCache_clear(S)

TagCache_clear(S) ==
    [NodeCache_clear(S) EXCEPT !.tagMap = EmptyMap]

----------------------------------------------------------------------------
(* LRUCache: the recency list.  A node is named by its key. *)

linkAsHead(S, k) ==
    LET n1 == [S.nodes EXCEPT ![k] = [prev |-> Null, next |-> S.head]]
        n2 == IF S.head # Null THEN [n1 EXCEPT ![S.head].prev = k] ELSE n1
    IN  [S EXCEPT !.nodes = n2,
                  !.head = k,
                  !.tail = IF S.tail = Null THEN k ELSE S.tail]

\* a slip: the neighbours are joined but head and tail are left where they were
unlink_KeepsEnds(S, k) ==
    LET node == S.nodes[k]
        n1 == IF node.prev # Null THEN [S.nodes EXCEPT ![node.prev].next = node.next]
              ELSE S.nodes
        n2 == IF node.next # Null THEN [n1 EXCEPT ![node.next].prev = node.prev]
              ELSE n1
    IN  [S EXCEPT !.nodes = [n2 EXCEPT ![k] = [prev |-> Null, next |-> Null]]]

unlink(S, k) ==
    LET node == S.nodes[k]
        n1 == IF node.prev # Null THEN [S.nodes EXCEPT ![node.prev].next = node.next]
              ELSE S.nodes
        n2 == IF node.next # Null THEN [n1 EXCEPT ![node.next].prev = node.prev]
              ELSE n1
    IN  [S EXCEPT !.nodes = [n2 EXCEPT ![k] = [prev |-> Null, next |-> Null]],
                  !.head = IF S.head = k THEN node.next ELSE S.head,
                  !.tail = IF S.tail = k THEN node.prev ELSE S.tail]

\* a slip: a use does not move the node
touch_Unmoved(S, key) == S

touch(S, key) ==
    IF key \notin DOMAIN S.nodes \/ key = S.head THEN S
    ELSE linkAsHead(unlink(S, key), key)

NodesDelete(nm, key) == [k \in DOMAIN nm \ {key} |-> nm[k]]

\* a slip: the entry goes, its node stays
LRUCache_delete_KeepsNode(S, key) == NodeCache_delete(S, key)

LRUCache_delete(S, key) ==
    LET S1 == NodeCache_delete(S, key)
    IN  IF key \in DOMAIN S1.nodes
        THEN [unlink(S1, key) EXCEPT !.nodes = NodesDelete(@, key)]
        ELSE S1

----------------------------------------------------------------------------
(* this.delete and this.get, as the constructed class resolves them *)

this_delete(S, key) ==
    CASE variant = "tag" -> TagCache_delete(S, key)
      [] variant = "lru" -> LRUCache_delete(S, key)
      [] OTHER -> NodeCache_delete(S, key)

\* a slip: lazy expiry removes the entry with the base class's delete, so the
\* overriding delete never sees it
NodeCache_get_BaseDelete(S, key) ==
    IF ~MapHas(S.store, key)
    THEN [S EXCEPT !.stats.misses = @ + 1, !.ret = Undefined]
    ELSE LET entry == MapGet(S.store, key) IN
         IF Expired(entry, now)
         THEN LET S1 == IF options.deleteOnExpire THEN NodeCache_delete(S, key) ELSE S
              IN  [S1 EXCEPT !.stats.misses = @ + 1, !.ret = Undefined]
         ELSE [S EXCEPT !.stats.hits = @ + 1, !.ret = entry.value]

NodeCache_get(S, key) ==
    IF ~MapHas(S.store, key)
    THEN [S EXCEPT !.stats.misses = @ + 1, !.ret = Undefined]
    ELSE LET entry == MapGet(S.store, key) IN
         IF Expired(entry, now)
         THEN LET S1 == IF options.deleteOnExpire THEN this_delete(S, key) ELSE S
              IN  [S1 EXCEPT !.stats.misses = @ + 1, !.ret = Undefined]
         ELSE [S EXCEPT !.stats.hits = @ + 1, !.ret = entry.value]

\* a slip: the key is marked as used whether or not the read found a value
LRUCache_get_TouchAlways(S, key) ==
    LET S1 == NodeCache_get(S, key)
    IN  [touch(S1, key) EXCEPT !.ret = S1.ret]

LRUCache_get(S, key) ==
    LET S1 == NodeCache_get(S, key)
    IN  IF S1.ret # Undefined THEN [touch(S1, key) EXCEPT !.ret = S1.ret] ELSE S1

this_get(S, key) ==
    IF variant = "lru" THEN LRUCache_get(S, key) ELSE NodeCache_get(S, key)

NodeCache_has(S, key) ==
    LET S1 == this_get(S, key)
    IN  [S1 EXCEPT !.ret = IF S1.ret # Undefined THEN "true" ELSE "false"]

RECURSIVE GetEach(_, _, _)
\* for (const k of this.getKeysByTag(tag)) { const v = this.get(k); if (v !== undefined) out.push(v) }
GetEach(S, keys, out) ==
    IF keys = {} THEN [S EXCEPT !.ret = Undefined, !.out = out]
    ELSE LET k == CHOOSE x \in keys : TRUE
             S1 == this_get(S, k)
         IN  GetEach(S1, keys \ {k},
                     IF S1.ret # Undefined THEN Append(out, S1.ret) ELSE out)

TagCache_getValuesByTag(S, tag) ==
    GetEach(S, IF TagMapHas(S.tagMap, tag) THEN S.tagMap[tag] ELSE {}, << >>)

----------------------------------------------------------------------------
(* LRUCache: set, sweepExpired, clear *)

LRUCache_set(S, key, value, ttl, tags) ==
    LET S1 == IF SizeReached(S.store) /\ ~MapHas(S.store, key) /\ S.tail # Null
              THEN LRUCache_delete(S, S.tail)
              ELSE S
        S2 == NodeCache_set(S1, key, value, ttl, tags)
    IN  IF S2.ret = "CacheError" THEN S2
        ELSE IF key \in DOMAIN S2.nodes
             THEN touch(S2, key)
             ELSE linkAsHead(
                    [S2 EXCEPT !.nodes =
                        [k \in DOMAIN S2.nodes \cup {key} |->
                            IF k = key THEN [prev |-> Null, next |-> Null]
                            ELSE S2.nodes[k]]],
                    key)

RECURSIVE UnlinkOrphans(_, _)
\* for (const [k, node] of this.nodes) if (!store.has(k)) { this.unlink(node); toDrop.push(k) }
UnlinkOrphans(S, keys) ==
    IF keys = {} THEN S
    ELSE LET k == CHOOSE x \in keys : TRUE
         IN  UnlinkOrphans(IF ~MapHas(S.store, k) THEN unlink(S, k) ELSE S, keys \ {k})

LRUCache_sweepExpired(S) ==
    LET S1 == NodeCache_sweepExpired(S)
        S2 == UnlinkOrphans(S1, DOMAIN S1.nodes)
    IN  [S2 EXCEPT !.nodes = [k \in {x \in DOMAIN S2.nodes : MapHas(S2.store, x)} |-> S2.nodes[k]]]

LRUCache_clear(S) ==
    [NodeCache_clear(S) EXCEPT !.head = Null, !.tail = Null, !.nodes = EmptyMap]

----------------------------------------------------------------------------
(* Persisted snapshots and the constructor *)

RECURSIVE ArrayFrom(_)
\* Array.from(v.tags)
ArrayFrom(set) ==
    IF set = {} THEN << >>
    ELSE LET x == CHOOSE y \in set : TRUE IN <<x>> \o ArrayFrom(set \ {x})

\* a slip: the entries are serialized as they are, and JSON turns a Set into {}
Serialize_SetsAsObjects(m) == [i \in 1..Len(m) |-> [m[i] EXCEPT !.tags = << >>]]

\* the array saveToDiskAsync serializes: tags as arrays
Serialize(m) == [i \in 1..Len(m) |-> [m[i] EXCEPT !.tags = ArrayFrom(@)]]

\* createHash("sha256").update(key).digest(), taken as free of collisions
deriveKey(key) == <<"sha256", key>>

\* Buffer.from(json, "utf8")
Utf8(json) == [cipher |-> FALSE, key |-> << >>, iv |-> 0, text |-> json, whole |-> TRUE]

\* the bytes of a file that was opened for writing and not written in full:
\* a proper prefix of a buffer, or the bytes of two writers mixed
Torn == [cipher |-> FALSE, key |-> << >>, iv |-> 0, text |-> << >>, whole |-> FALSE]

\* [IV | TAG | CIPHERTEXT] of data under key, with iv the random IV
encrypt(data, key, iv) ==
    [cipher |-> TRUE, key |-> key, iv |-> iv, text |-> data.text, whole |-> TRUE]

\* decipher.final() verifies the tag: only the key of the envelope opens it
decrypt_Throws(data, key) == ~(data.cipher /\ data.key = key /\ data.whole)

decrypt(data, key) == Utf8(data.text)

\* the bytes saveToDiskAsync renames into place
saveToDiskAsync(m, encryption, secretKey, iv) ==
    IF encryption
    THEN encrypt(Utf8(Serialize(m)), deriveKey(secretKey), iv)
    ELSE Utf8(Serialize(m))

\* what loadFromDisk throws, Null when it returns
loadFromDisk_Throws(file, encryption, secretKey) ==
    IF file = << >> THEN Null
    ELSE IF encryption
         THEN IF decrypt_Throws(file[1], deriveKey(secretKey)) THEN "EncryptionError"
              ELSE Null
         ELSE IF file[1].cipher \/ ~file[1].whole THEN "PersistenceError" ELSE Null

\* file is << >> when no file exists, <<content>> otherwise; the result is
\* << >> for undefined and <<map>> for the loaded map
loadFromDisk(file, encryption, secretKey) ==
    IF file = << >> \/ loadFromDisk_Throws(file, encryption, secretKey) # Null THEN << >>
    ELSE LET raw == file[1]
             arr == IF encryption THEN decrypt(raw, deriveKey(secretKey)).text ELSE raw.text
         IN  <<[i \in 1..Len(arr) |-> [arr[i] EXCEPT !.tags = SetOf(@)]]>>

\* the options of an instance built with backup: false and checkperiod: 0
validateOptions(size, stdTTL, deleteOnExpire, versionHistory) ==
    [size |-> size,
     stdTTL |-> stdTTL,
     deleteOnExpire |-> IF deleteOnExpire = << >> THEN stdTTL # 0 ELSE deleteOnExpire[1],
     versionHistory |-> versionHistory,
     encryption |-> FALSE,
     secretKey |-> "",
     backup |-> FALSE,
     checkperiod |-> 0,
     half |-> 0]

\* the same options given with encryption: true and a secretKey
Encrypted(opts, secretKey) == [opts EXCEPT !.encryption = TRUE, !.secretKey = secretKey]

\* the same options with backup left at its default, true
BackedUp(opts) == [opts EXCEPT !.backup = TRUE]

\* the same options given with a size half a unit larger, which the
\* validation accepts as a positive finite number
Fractional(opts) == [opts EXCEPT !.half = 1]

\* the same options given with a checkperiod in seconds
Periodic(opts, checkperiod) == [opts EXCEPT !.checkperiod = checkperiod]

\* the entries an earlier instance with the same options left stored, in a snapshot
SavedEntry(k, tags) ==
    [key |-> k, value |-> "v1", ttl |-> << >>, tags |-> tags, history |-> << >>,
     createdAt |-> 0]

ConstructedIn(v, opts, file, cl, dir) ==
    /\ variant = v
    /\ client = cl
    /\ options = opts
    /\ disk = file
    /\ store = IF loadFromDisk(file, opts.encryption, opts.secretKey) = << >> THEN << >>
               ELSE loadFromDisk(file, opts.encryption, opts.secretKey)[1]
    /\ stats = [hits |-> 0, misses |-> 0, keys |-> 0]
    /\ tagMap = EmptyMap
    /\ head = Null
    /\ tail = Null
    /\ nodes = EmptyMap
    /\ now = 0
    /\ events = << >>
    /\ last = [op |-> "new", key |-> Null, tag |-> Null, ret |-> Undefined, out |-> << >>]
    /\ recency = << >>
    /\ io = [dir |-> dir, tmp |-> << >>, saves |-> << >>]
    /\ checkInterval = IF opts.checkperiod > 0
                       THEN <<[due |-> opts.checkperiod * MsPerSec, cleared |-> FALSE]>>
                       ELSE << >>

\* an instance whose persistence folder exists
Constructed(v, opts, file, cl) == ConstructedIn(v, opts, file, cl, TRUE)

----------------------------------------------------------------------------
(* The calls a client makes, as actions *)

this_set(S, key, value, ttl, tags) ==
    CASE variant = "tag" -> TagCache_set(S, key, value, ttl, tags)
      [] variant = "lru" -> LRUCache_set(S, key, value, ttl, tags)
      [] OTHER -> NodeCache_set(S, key, value, ttl, tags)

this_clear(S) ==
    CASE variant = "tag" -> TagCache_clear(S)
      [] variant = "lru" -> LRUCache_clear(S)
      [] OTHER -> NodeCache_clear(S)

this_sweepExpired(S) ==
    IF variant = "lru" THEN LRUCache_sweepExpired(S) ELSE NodeCache_sweepExpired(S)

\* history variable: a key is used by a successful set and by a get/has hit;
\* a key no longer stored is forgotten
Used(seq, key, used, newStore) ==
    LET kept == SelectSeq(seq, LAMBDA k : MapHas(newStore, k) /\ ~(used /\ k = key))
    IN  IF variant # "lru" THEN << >>
        ELSE IF used THEN <<key>> \o kept ELSE kept

CommitMem(R, op, key, tag, used) ==
    /\ store' = R.store
    /\ stats' = R.stats
    /\ tagMap' = R.tagMap
    /\ head' = R.head
    /\ tail' = R.tail
    /\ nodes' = R.nodes
    /\ events' = R.events
    /\ last' = [op |-> op, key |-> key, tag |-> tag, ret |-> R.ret, out |-> R.out]
    /\ recency' = Used(recency, key, used, R.store)
    /\ UNCHANGED <<variant, options, now, client, disk>>

\* a call that starts no save and is not the timer's
Commit(R, op, key, tag, used) ==
    /\ CommitMem(R, op, key, tag, used)
    /\ UNCHANGED <<io, checkInterval>>

Set(key, value, ttl, tags) ==
    LET R == this_set(This, key, value, ttl, tags)
    IN  Commit(R, "set", key, Null, R.ret = "ok")

Get(key) ==
    /\ stats.hits + stats.misses < MaxLookups
    /\ LET R == this_get(This, key)
       IN  Commit(R, "get", key, Null, R.ret # Undefined)

Has(key) ==
    /\ stats.hits + stats.misses < MaxLookups
    /\ LET R == NodeCache_has(This, key)
       IN  Commit(R, "has", key, Null, R.ret = "true")

Delete(key) == Commit(this_delete(This, key), "delete", key, Null, FALSE)

Clear == Commit(this_clear(This), "clear", Null, Null, FALSE)

\* saveToDiskAsync up to its first await, called with the map m: where the
\* folder exists the bytes to write are made within the call, otherwise
\* after the folder has been made; called is what the map held at the call
StartSave(kind, m) ==
    LET buf == saveToDiskAsync(m, options.encryption, options.secretKey, 0)
    IN  [kind |-> kind,
         pc |-> IF io.dir THEN "writeFile" ELSE "mkdir",
         buf |-> IF io.dir THEN <<buf>> ELSE << >>,
         called |-> buf,
         fd |-> Null,
         shared |-> FALSE]

\* sweepExpired(), with the backup it starts when options.backup is set
SweepStep(op) ==
    LET R == this_sweepExpired(This)
    IN  /\ options.backup => Len(io.saves) < client.saves
        /\ CommitMem(R, op, Null, Null, FALSE)
        /\ io' = IF options.backup
                 THEN [io EXCEPT !.saves = Append(@, StartSave("backup", R.store))]
                 ELSE io

\* sweepExpired() called by a client
SweepExpired == SweepStep("sweepExpired") /\ UNCHANGED checkInterval

\* the interval timer has cleared: () => this.sweepExpired() runs, and the
\* timer is due again one period later
TimerFires ==
    /\ checkInterval # << >>
    /\ ~checkInterval[1].cleared
    /\ now >= checkInterval[1].due
    /\ SweepStep("timer")
    /\ checkInterval' = <<[checkInterval[1] EXCEPT !.due = @ + options.checkperiod * MsPerSec]>>

\* the clock reaches the time the timer is due, for the first MaxFirings periods
TimerDue ==
    /\ checkInterval # << >>
    /\ now < checkInterval[1].due
    /\ checkInterval[1].due <= MaxFirings * options.checkperiod * MsPerSec
    /\ now' = checkInterval[1].due
    /\ events' = << >>
    /\ last' = [op |-> "tick", key |-> Null, tag |-> Null, ret |-> Undefined, out |-> << >>]
    /\ UNCHANGED <<variant, options, store, stats, tagMap, head, tail, nodes, client,
                   recency, disk, io, checkInterval>>

\* a slip: destroy leaves the timer running
destroy_KeepsTimer(timer) == timer

\* if (this.checkInterval) clearInterval(this.checkInterval)
destroy(timer) == IF timer # << >> THEN <<[timer[1] EXCEPT !.cleared = TRUE]>> ELSE timer

Destroy ==
    /\ checkInterval' = destroy(checkInterval)
    /\ events' = << >>
    /\ last' = [op |-> "destroy", key |-> Null, tag |-> Null, ret |-> Undefined, out |-> << >>]
    /\ UNCHANGED <<variant, options, store, stats, tagMap, head, tail, nodes, now, client,
                   recency, disk, io>>

AddTagToKey(key, tag) ==
    Commit(TagCache_addTagToKey(This, key, tag), "addTagToKey", key, tag, FALSE)

DeleteTag(tag) == Commit(TagCache_deleteTag(This, tag), "deleteTag", Null, tag, FALSE)

GetValuesByTag(tag) ==
    /\ stats.hits + stats.misses + Cardinality(getKeysByTag(tag)) <= MaxLookups
    /\ Commit(TagCache_getValuesByTag(This, tag), "getValuesByTag", Null, tag, FALSE)

\* getTTL(key) reads the entry and the clock and writes nothing
GetTTL(key) == Commit([This EXCEPT !.out = getTTL(key)], "getTTL", key, Null, FALSE)

\* await flush() while no other save is in flight: the snapshot of this.store
\* replaces the file
Flush ==
    /\ \E iv \in IF options.encryption THEN IVs ELSE {0} :
          disk' = <<saveToDiskAsync(store, options.encryption, options.secretKey, iv)>>
    /\ events' = << >>
    /\ last' = [op |-> "flush", key |-> Null, tag |-> Null, ret |-> Undefined, out |-> << >>]
    /\ io.saves = << >>
    /\ io' = [io EXCEPT !.dir = TRUE]
    /\ UNCHANGED <<variant, options, store, stats, tagMap, head, tail, nodes, now, client,
                   recency, checkInterval>>

\* a new instance of the same class at the same persistence path, with the
\* same options and the secret given; when the constructor throws, the
\* instance in use stays the one there was
Restart(secretKey) ==
    LET opts == IF options.encryption THEN Encrypted(options, secretKey) ELSE options
        thrown == loadFromDisk_Throws(disk, opts.encryption, opts.secretKey)
        loaded == loadFromDisk(disk, opts.encryption, opts.secretKey)
    IN  /\ events' = << >>
        /\ last' = [op |-> "new", key |-> Null, tag |-> Null,
                    ret |-> IF thrown = Null THEN Undefined ELSE thrown, out |-> << >>]
        /\ IF thrown # Null
           THEN UNCHANGED <<options, store, stats, tagMap, head, tail, nodes, recency>>
           ELSE /\ options' = opts
                /\ store' = IF loaded = << >> THEN << >> ELSE loaded[1]
                /\ stats' = [hits |-> 0, misses |-> 0, keys |-> 0]
                /\ tagMap' = EmptyMap
                /\ head' = Null
                /\ tail' = Null
                /\ nodes' = EmptyMap
                /\ recency' = << >>
        /\ UNCHANGED <<variant, now, client, disk, io, checkInterval>>

\* Date.now() moves on between calls
Tick ==
    /\ now + client.tick <= MaxNow
    /\ now' = now + client.tick
    /\ events' = << >>
    /\ last' = [op |-> "tick", key |-> Null, tag |-> Null, ret |-> Undefined, out |-> << >>]
    /\ UNCHANGED <<variant, options, store, stats, tagMap, head, tail, nodes, client,
                   recency, disk, io, checkInterval>>

----------------------------------------------------------------------------
(* Saves in flight: the steps of saveToDiskAsync between its awaits *)

\* a step of the file system or of a promise: the object is left as it is
IOStep(op, ret, out) ==
    /\ events' = << >>
    /\ last' = [op |-> op, key |-> Null, tag |-> Null, ret |-> ret, out |-> out]
    /\ UNCHANGED <<variant, options, store, stats, tagMap, head, tail, nodes, now, client,
                   recency, checkInterval>>

\* flush() called and not awaited
FlushCall ==
    /\ Len(io.saves) < client.saves
    /\ io' = [io EXCEPT !.saves = Append(@, StartSave("flush", store))]
    /\ UNCHANGED disk
    /\ IOStep("flush()", Undefined, << >>)

\* await fsPromises.mkdir(dir) resolves; the array is serialized now
MkdirDone(i) ==
    /\ io.saves[i].pc = "mkdir"
    /\ io' = [io EXCEPT !.dir = TRUE,
                        !.saves[i].pc = "writeFile",
                        !.saves[i].buf =
                            <<saveToDiskAsync(store, options.encryption, options.secretKey, 0)>>]
    /\ UNCHANGED disk
    /\ IOStep("io", Undefined, << >>)

\* fsPromises.writeFile(tmpPath, buf) opens the temporary file: it is created
\* or truncated; the writers that have it open now share it
WriteFileOpens(i) ==
    LET others == {j \in 1..Len(io.saves) : io.saves[j].fd = "tmp"}
    IN  /\ io.saves[i].pc = "writeFile"
        /\ io' = [io EXCEPT
                    !.tmp = <<Torn>>,
                    !.saves = [j \in 1..Len(io.saves) |->
                        IF j = i THEN [@[j] EXCEPT !.pc = "writing", !.fd = "tmp",
                                                   !.shared = others # {}]
                        ELSE IF j \in others THEN [@[j] EXCEPT !.shared = TRUE]
                        ELSE @[j]]]
        /\ UNCHANGED disk
        /\ IOStep("io", Undefined, << >>)

\* writeFile has written its last byte and closes the file; the file it wrote
\* is where its path was renamed to meanwhile
WriteFileDone(i) ==
    LET sv == io.saves[i]
    IN  /\ sv.pc = "writing"
        /\ \E bytes \in IF sv.shared THEN {sv.buf[1], Torn} ELSE {sv.buf[1]} :
              /\ io' = [io EXCEPT !.tmp = IF sv.fd = "tmp" THEN <<bytes>> ELSE @,
                                  !.saves[i].pc = "rename",
                                  !.saves[i].fd = Null]
              /\ disk' = IF sv.fd = "dest" THEN <<bytes>> ELSE disk
        /\ IOStep("io", Undefined, << >>)

\* the sequence without its i-th element
Without(seq, i) == [j \in 1..(Len(seq) - 1) |-> IF j < i THEN seq[j] ELSE seq[j + 1]]

\* a slip: the rejection of a backup is not caught
Settled_Uncaught(kind, err) ==
    [op |-> kind, ret |-> IF err = Null THEN Undefined ELSE "PersistenceError", out |-> << >>]

\* how a save ends for its caller: flush() resolves or rejects with a
\* PersistenceError; a backup's rejection is caught and logged
Settled(kind, err) ==
    IF kind = "flush"
    THEN [op |-> kind, ret |-> IF err = Null THEN Undefined ELSE "PersistenceError",
          out |-> << >>]
    ELSE [op |-> kind, ret |-> Undefined,
          out |-> IF err = Null THEN << >> ELSE <<"backup failed">>]

\* await fsPromises.rename(tmpPath, filePath): the temporary file takes the
\* place of the snapshot file, or there is no temporary file to rename
Rename(i) ==
    LET sv == io.saves[i]
        err == IF io.tmp = << >> THEN "ENOENT" ELSE Null
        end == Settled(sv.kind, err)
    IN  /\ sv.pc = "rename"
        /\ disk' = IF err = Null THEN io.tmp ELSE disk
        /\ io' = [io EXCEPT
                    !.tmp = << >>,
                    !.saves = Without(
                        [j \in 1..Len(io.saves) |->
                            IF err # Null THEN @[j]
                            ELSE IF @[j].fd = "tmp" THEN [@[j] EXCEPT !.fd = "dest"]
                            ELSE IF @[j].fd = "dest" THEN [@[j] EXCEPT !.fd = "orphan"]
                            ELSE @[j]], i)]
        /\ IOStep(end.op, end.ret, end.out)

\* the file system fails the call a save is waiting for (no space, no
\* permission): the save ends there and cleans nothing up
IOFails(i) ==
    LET sv == io.saves[i]
        end == Settled(sv.kind, "EIO")
    IN  /\ io' = [io EXCEPT !.saves = Without(@, i)]
        /\ UNCHANGED disk
        /\ IOStep(end.op, end.ret, end.out)

----------------------------------------------------------------------------
(* Specifications, one per class *)

OptionsOf(sizes, stdTTLs, hists) ==
    {validateOptions(size, stdTTL, doe, vh) :
        size \in sizes, stdTTL \in stdTTLs, doe \in {<< >>, <<TRUE>>, <<FALSE>>}, vh \in hists}

\* the snapshot files an instance may find: none, or what an earlier instance saved
FilesOf(v, opts) ==
    {<< >>} \cup
    {<<Utf8(Serialize(<<SavedEntry("a", tags)>>))>> : tags \in IF v = "tag" THEN {{}, {"t1"}} ELSE {{}}}
    \cup
    {<<Utf8(Serialize(<<SavedEntry("a", {}), SavedEntry("b", {})>>))>> : x \in {y \in {1} : opts.size >= 2}}

Client(keys, values, ttls, tagArgs, tick) ==
    [keys |-> keys, values |-> values, ttls |-> ttls, tagArgs |-> tagArgs, tick |-> tick]

SetAny ==
    \E k \in client.keys, v \in client.values, ttl \in client.ttls, tags \in client.tagArgs :
        Set(k, v, ttl, tags)

NextBase ==
    \/ SetAny
    \/ \E k \in client.keys : Get(k)
    \/ \E k \in client.keys : Has(k)
    \/ \E k \in client.keys : Delete(k)
    \/ Clear
    \/ SweepExpired
    \/ Tick

NextTag ==
    \/ NextBase
    \/ \E k \in client.keys, t \in Tags : AddTagToKey(k, t)
    \/ \E t \in Tags : DeleteTag(t)
    \/ \E t \in Tags : GetValuesByTag(t)

NextSetDelete ==
    \/ SetAny
    \/ \E k \in client.keys : Delete(k)
    \/ Tick

StoreClient == Client({"a", "b"}, Values, TtlArgs, {<< >>}, TickMs)
CoarseStoreClient == Client({"a", "b"}, {"v1"}, {<< >>, <<1>>}, {<< >>}, 2 * TickMs)
HistoryClient == Client({"a"}, Values, {<< >>, <<1>>}, {<< >>}, 2 * TickMs)
TagClient == Client({"a", "b"}, {"v1"}, {<< >>, <<1>>}, TagArgs, 2 * TickMs)
LRUClient == Client(Keys, {"v1"}, {<< >>, <<1>>}, {<< >>}, 2 * TickMs)

InitStore ==
    \E opts \in OptionsOf(1..MaxSize, {0, 1}, {0}) :
        \E file \in FilesOf("store", opts) : Constructed("store", opts, file, StoreClient)

InitStoreCoarse ==
    \E opts \in OptionsOf(1..MaxSize, {0}, {0}) :
        Constructed("store", opts, << >>, CoarseStoreClient)

InitHistory ==
    \E opts \in OptionsOf({1}, {0}, 0..MaxHistory) : Constructed("store", opts, << >>, HistoryClient)

InitTag ==
    \E opts \in OptionsOf(1..MaxSize, {0}, {0}) :
        \E file \in FilesOf("tag", opts) : Constructed("tag", opts, file, TagClient)

InitTagEmpty ==
    \E opts \in OptionsOf(1..MaxSize, {0}, {0}) : Constructed("tag", opts, << >>, TagClient)

InitLRU ==
    \E opts \in OptionsOf(1..MaxSize, {0}, {0}) :
        \E file \in FilesOf("lru", opts) : Constructed("lru", opts, file, LRUClient)

InitLRUEmpty ==
    \E opts \in OptionsOf(1..MaxSize, {0}, {0}) : Constructed("lru", opts, << >>, LRUClient)

NextStoreOrTag ==
    \/ variant = "store" /\ NextBase
    \/ variant = "tag" /\ NextTag

Spec == InitStore /\ [][NextBase]_vars

SpecStoreOrTag == (InitStoreCoarse \/ InitTagEmpty) /\ [][NextStoreOrTag]_vars

SpecHistory == InitHistory /\ [][NextBase]_vars

SpecTag == InitTag /\ [][NextTag]_vars

SpecTagEmpty == InitTagEmpty /\ [][NextTag]_vars

SpecTagSetDelete == InitTagEmpty /\ [][NextSetDelete]_vars

SpecLRU == InitLRU /\ [][NextBase]_vars

SpecLRUEmpty == InitLRUEmpty /\ [][NextBase]_vars

InitStoreEmpty ==
    \E opts \in OptionsOf(1..MaxSize, {0, 1}, {0}) :
        Constructed("store", opts, << >>, StoreClient)

SpecStoreEmpty == InitStoreEmpty /\ [][NextBase]_vars

\* entries with two seconds to live, read every half second
GetTTLClient == Client({"a", "b"}, {"v1"}, {<< >>, <<2>>}, {<< >>}, TickMs)

InitGetTTL ==
    \E opts \in OptionsOf({MaxSize}, {0}, {0}) :
        Constructed("store", opts, << >>, GetTTLClient)

NextGetTTL ==
    \/ NextBase
    \/ \E k \in Keys : GetTTL(k)

SpecGetTTL == InitGetTTL /\ [][NextGetTTL]_vars

\* every kind of ttl argument against every default, on coarse time
TtlArgsClient == Client({"a", "b"}, Values, TtlArgs, {<< >>}, 2 * TickMs)

InitTtlArgs ==
    \E opts \in OptionsOf({MaxSize}, {0, 1}, {0}) :
        Constructed("store", opts, << >>, TtlArgsClient)

SpecTtlArgs == InitTtlArgs /\ [][NextBase]_vars

\* an LRUCache with room for three keys
InitLRURoomy ==
    \E opts \in OptionsOf({MaxSize + 1}, {0}, {0}) :
        Constructed("lru", opts, << >>, LRUClient)

SpecLRURoomy == InitLRURoomy /\ [][NextBase]_vars

\* the three classes side by side, each started without a snapshot
ValuesStoreClient == Client({"a", "b"}, Values, {<< >>, <<1>>}, {<< >>}, 2 * TickMs)

InitStoreValues ==
    \E opts \in OptionsOf(1..MaxSize, {0, 1}, {0}) :
        Constructed("store", opts, << >>, ValuesStoreClient)

\* a TagCache with room for every key of its client
InitTagRoomy ==
    \E opts \in OptionsOf({MaxSize}, {0}, {0}) : Constructed("tag", opts, << >>, TagClient)

InitAny == InitStoreValues \/ InitTagRoomy \/ InitLRUEmpty

NextAny ==
    \/ variant = "tag" /\ NextTag
    \/ variant # "tag" /\ NextBase

SpecAny == InitAny /\ [][NextAny]_vars

\* the three classes read long after every deadline: a tick takes the clock
\* from 0 past the deadline of every entry set with a TTL before it
LateClient == Client({"a", "b"}, {"v1"}, {<< >>, <<1>>}, {<< >>, <<"t1">>}, MaxNow)

InitLate ==
    \E v \in {"store", "tag", "lru"} :
        \E opts \in OptionsOf({MaxSize}, {0}, {0}) : Constructed(v, opts, << >>, LateClient)

SpecLate == InitLate /\ [][NextAny]_vars

\* instances that save snapshots and are built again from them: one key with
\* every kind of entry, or two keys with fewer kinds
OneKeyClient == Client({"a"}, Values, {<< >>, <<1>>}, {<< >>, <<"t1", "t2">>}, MaxNow)
TwoKeyClient == Client({"a", "b"}, {"v1"}, {<< >>, <<1>>}, {<< >>, <<"t1">>}, MaxNow)

InitPersist ==
    \E opts \in {validateOptions(1, 0, << >>, 1), validateOptions(MaxSize, 0, << >>, 0)} :
        \E o \in {opts, Encrypted(opts, "secret-one")} :
            Constructed("store", o, << >>,
                        IF opts.size = 1 THEN OneKeyClient ELSE TwoKeyClient)

NextPersist ==
    \/ SetAny
    \/ \E k \in client.keys : Delete(k)
    \/ Flush
    \/ \E secretKey \in Secrets : Restart(secretKey)
    \/ Tick

SpecPersist == InitPersist /\ [][NextPersist]_vars

\* an LRUCache of the smallest size and of size MaxSize, started with or
\* without a snapshot; one tick takes the clock past every deadline
LRULateClient == Client(Keys, {"v1"}, {<< >>, <<1>>}, {<< >>}, MaxNow)

InitLRUEnds ==
    \E opts \in OptionsOf({1, MaxSize}, {0}, {0}) :
        \E file \in FilesOf("lru", opts) : Constructed("lru", opts, file, LRULateClient)

SpecLRUEnds == InitLRUEnds /\ [][NextBase]_vars

\* a client of an instance that keeps backups; it also holds how many saves
\* it lets be in flight at once
SavingClient(saves) ==
    [keys |-> {"a"}, values |-> {"v1"}, ttls |-> {<<1>>}, tagArgs |-> {<<"t1">>},
     tick |-> MaxNow, saves |-> saves]

\* instances that keep backups, whose saves overlap each other and the
\* client's calls; the persistence folder exists or not
InitSaving(variants, saves) ==
    \E v \in variants, dir \in BOOLEAN :
        ConstructedIn(v, BackedUp(validateOptions(MaxSize, 0, <<TRUE>>, 0)), << >>,
                      SavingClient(saves), dir)

InitSave == InitSaving({"store"}, MaxSaves)

NextSave ==
    \/ SetAny
    \/ \E k \in client.keys : Delete(k)
    \/ Clear
    \/ SweepExpired
    \/ Tick
    \/ FlushCall
    \/ \E i \in 1..Len(io.saves) : MkdirDone(i)
    \/ \E i \in 1..Len(io.saves) : WriteFileOpens(i)
    \/ \E i \in 1..Len(io.saves) : WriteFileDone(i)
    \/ \E i \in 1..Len(io.saves) : Rename(i)

SpecSave == InitSave /\ [][NextSave]_vars

\* the same, on a file system that may fail any call
NextSaveFaulty ==
    \/ NextSave
    \/ \E i \in 1..Len(io.saves) : IOFails(i)

InitSaveFaulty == InitSaving({"store", "tag", "lru"}, MaxFaultySaves)

SpecSaveFaulty == InitSaveFaulty /\ [][NextSaveFaulty]_vars

\* a NodeCache or TagCache with the interval timer running and deleteOnExpire
\* enabled, whose client only writes: nothing but the timer removes an entry
TimerClient == Client({"a", "b"}, {"v1"}, {<< >>, <<1>>}, {<< >>, <<"t1">>}, TickMs)

InitTimer ==
    \E v \in {"store", "tag"} :
        Constructed(v, Periodic(validateOptions(MaxSize, 0, <<TRUE>>, 0), MinCheckperiod),
                    << >>, TimerClient)

NextTimer ==
    \/ SetAny
    \/ Tick
    \/ TimerDue
    \/ TimerFires
    \/ Destroy

\* time goes on and the timer fires when it is due
SpecTimer ==
    InitTimer /\ [][NextTimer]_vars /\ WF_vars(TimerDue) /\ WF_vars(TimerFires)

\* a TagCache or an LRUCache built over the snapshot an earlier instance saved
InitLoaded ==
    \E v \in {"tag", "lru"} :
        \E opts \in OptionsOf({MaxSize}, {0}, {0}) :
            \E file \in FilesOf(v, opts) \ {<< >>} : Constructed(v, opts, file, LateClient)

SpecLoaded == InitLoaded /\ [][NextAny]_vars

\* the three classes started empty, for whole sizes and for sizes with a
\* fractional part: 0.5, 1, 1.5, ... up to MaxSize
InitSizes ==
    \E v \in {"store", "tag", "lru"} :
        \E opts \in OptionsOf(1..MaxSize, {0}, {0})
                    \cup {Fractional(o) : o \in OptionsOf(0..(MaxSize - 1), {0}, {0})} :
            Constructed(v, opts, << >>, LateClient)

SpecSizes == InitSizes /\ [][NextAny]_vars

----------------------------------------------------------------------------
(* Properties *)

StepOf(op, key) == last'.op = op /\ last'.key = key

Take(s, n) == SubSeq(s, 1, IF n < Len(s) THEN n ELSE Len(s))

\* C1: on the base store, get(k) of a stored entry returns its value exactly
\* when the entry has no TTL or now < createdAt + ttl, and absent otherwise
\* (so absent at every now >= createdAt + ttl).
C1_GetLiveIffBeforeDeadline ==
    [][\A k \in Keys :
        (StepOf("get", k) /\ MapHas(store, k)) =>
            LET e == MapGet(store, k)
            IN  last'.ret = IF e.ttl = << >> \/ now < e.createdAt + e.ttl[1]
                            THEN e.value ELSE Undefined]_vars

\* C2: on an LRUCache started empty, a set of a key not stored while size
\* entries are stored removes exactly the stored key whose most recent use is
\* the oldest (the last of recency, which lists every stored key) and keeps
\* every other stored key.
C2_EvictsLeastRecentlyUsed ==
    [][\A k \in Keys :
        (StepOf("set", k) /\ ~MapHas(store, k) /\ Len(store) = options.size) =>
            /\ SetOf(recency) = MapKeys(store)
            /\ Len(recency) = Len(store)
            /\ MapKeys(store') = (MapKeys(store) \ {recency[Len(recency)]}) \cup {k}]_vars

\* the README's run: set(a) set(b) get(a) set(c) with size 2 leaves {a, c}
C2_Witness ==
    /\ variant = "lru"
    /\ options.size = 2
    /\ last.op = "set" /\ last.key = "c"
    /\ events = << <<"del", "b">>, <<"set", "c", "v1">> >>
    /\ stats.hits = 1
    /\ MapKeys(store) = {"a", "c"}

\* C3: on the base store and on TagCache, set of a key not stored while the
\* number of stored entries is >= size raises the capacity error, emits no
\* event and leaves the map, every entry, the counters and the tag index as
\* they were.
C3_CapacityErrorChangesNothing ==
    [][\A k \in Keys :
        (StepOf("set", k) /\ ~MapHas(store, k) /\ Len(store) >= options.size) =>
            /\ last'.ret = "CacheError"
            /\ store' = store
            /\ stats' = stats
            /\ tagMap' = tagMap
            /\ events' = << >>]_vars

C3_Witness ==
    /\ variant = "tag"
    /\ last.op = "set" /\ last.ret = "CacheError"
    /\ Len(store) = options.size
    /\ DOMAIN tagMap # {}

\* C4: on an LRUCache, in every reachable state, set of a key not stored
\* while the store is at capacity does not raise the capacity error: it
\* removes the tail key and stores the new key.
C4_LRUSetNeverRaises ==
    [][\A k \in Keys :
        (StepOf("set", k) /\ ~MapHas(store, k) /\ Len(store) >= options.size) =>
            /\ last'.ret = "ok"
            /\ MapHas(store', k)
            /\ tail # Null
            /\ ~MapHas(store', tail)]_vars

\* C5: every stored entry keeps at most versionHistory previous values; a
\* set that overwrites k makes getHistory(k) the overwritten value followed by
\* the old getHistory(k), cut to its first versionHistory elements; a set that
\* inserts k starts with an empty history; no other call changes the history
\* of a key that stays stored.
C5_HistoryBound ==
    \A i \in 1..Len(store) : Len(store[i].history) <= options.versionHistory

C5_HistoryStep ==
    \A k \in Keys :
        /\ (StepOf("set", k) /\ last'.ret = "ok") =>
              getHistory(k)' =
                 IF MapHas(store, k)
                 THEN Take(<<MapGet(store, k).value>> \o getHistory(k),
                           options.versionHistory)
                 ELSE << >>
        /\ (~StepOf("set", k) /\ MapHas(store, k) /\ MapHas(store', k)) =>
              getHistory(k)' = getHistory(k)

C5_HistoryNewestFirstCapped == []C5_HistoryBound /\ [][C5_HistoryStep]_vars

C5_Witness ==
    /\ options.versionHistory = 2
    /\ last.op = "set" /\ last.key = "a"
    /\ MapHas(store, "a")
    /\ MapGet(store, "a").value = "v1"
    /\ getHistory("a") = <<"v2", "v1">>

\* C6: on TagCache, a set that overwrites a stored key replaces its tags:
\* afterwards k is listed by getKeysByTag(t) exactly for the tags t given to
\* the set, and no tag of the index is left with an empty tag-set.
C6_OverwriteReplacesTags ==
    [][\A k \in Keys :
        (StepOf("set", k) /\ MapHas(store, k)) =>
            /\ last'.ret = "ok"
            /\ \A t \in Tags : (k \in getKeysByTag(t)') <=> (t \in MapGet(store', k).tags)
            /\ \A t \in DOMAIN tagMap' : tagMap'[t] # {}]_vars

\* C7: on TagCache, every key listed in the tag index under a tag is stored
\* and its stored tag set contains that tag.
C7_IndexedKeysAreStoredWithTag ==
    \A t \in DOMAIN tagMap :
        \A k \in tagMap[t] : MapHas(store, k) /\ t \in MapGet(store, k).tags

\* C8: on TagCache started empty, after set and delete calls only, the
\* union of the tag-sets of the index is the set of stored keys whose stored
\* tag set is not empty.
C8_IndexUnionIsTaggedKeys ==
    UNION {tagMap[t] : t \in DOMAIN tagMap} =
        {k \in MapKeys(store) : MapGet(store, k).tags # {}}

C8_Witness ==
    /\ variant = "tag"
    /\ last.op = "delete" /\ last.ret = "true"
    /\ DOMAIN tagMap = {"t2"}
    /\ Len(store) = 1
    /\ store[1].tags = {"t2"}
    /\ now > 0

\* C9: on TagCache, in every reachable state, deleteTag(t) removes from the
\* store exactly the entries whose stored tag set contains t and leaves the
\* others stored and unchanged; afterwards no tag-set lists a key that
\* carried t and getKeysByTag(t) is empty; deleteTag of a tag the index does not hold
\* changes nothing.
C9_DeleteTagRemovesExactlyTagged ==
    [][\A t \in Tags :
        (last'.op = "deleteTag" /\ last'.tag = t) =>
            /\ store' = SelectSeq(store, LAMBDA e : t \notin e.tags)
            /\ getKeysByTag(t)' = {}
            /\ \A u \in DOMAIN tagMap' :
                 \A i \in 1..Len(store) : t \in store[i].tags => store[i].key \notin tagMap'[u]
            /\ (~TagMapHas(tagMap, t) => store' = store /\ tagMap' = tagMap)]_vars

\* C10: sweepExpired with deleteOnExpire enabled removes exactly the entries
\* that have a TTL and are not live at now (live: now < createdAt + ttl) and
\* leaves the others stored and unchanged; with deleteOnExpire disabled it
\* removes nothing, and a get or has of a stored entry that is not live
\* reports it absent and leaves it listed by getKeys.
C10_SweepRemovesExactlyNotLive ==
    [][/\ last'.op = "sweepExpired" =>
            store' = IF options.deleteOnExpire
                     THEN SelectSeq(store,
                            LAMBDA e : e.ttl = << >> \/ now < e.createdAt + e.ttl[1])
                     ELSE store
       /\ \A k \in Keys :
            ( /\ StepOf("get", k) \/ StepOf("has", k)
              /\ ~options.deleteOnExpire
              /\ MapHas(store, k)
              /\ MapGet(store, k).ttl # << >>
              /\ ~(now < MapGet(store, k).createdAt + MapGet(store, k).ttl[1]) ) =>
                /\ last'.ret \in {Undefined, "false"}
                /\ getKeys' = getKeys]_vars

\* the entries of the map s whose keys the map t no longer holds
Removed(s, t) == SelectSeq(s, LAMBDA e : ~MapHas(t, e.key))

\* C11: on every class, a sweepExpired emits one "expired" event for each
\* entry it removes, carrying the key and the value the entry held, and
\* nothing else (no "del"); no other call (set with or without LRU eviction,
\* get, has, delete, clear, addTagToKey, deleteTag, getValuesByTag) emits an
\* "expired" event.
C11_ExpiredOnlyFromSweep ==
    [][/\ last'.op = "sweepExpired" =>
            events' = [i \in 1..Len(Removed(store, store')) |->
                         <<"expired", Removed(store, store')[i].key,
                           Removed(store, store')[i].value>>]
       /\ last'.op # "sweepExpired" =>
            \A i \in 1..Len(events') : events'[i][1] # "expired"]_vars

C11_Witness ==
    /\ last.op = "sweepExpired"
    /\ events = << <<"expired", "a", "v2">>, <<"expired", "b", "v1">> >>
    /\ store = << >>

\* the events of the sequence evs whose name is kind
EventsOf(evs, kind) == SelectSeq(evs, LAMBDA ev : ev[1] = kind)

\* C12: on every class, a set(k, v) that succeeds emits exactly one "set"
\* event, (k, v) with v the value now stored, after the "del" of an entry it
\* evicted, and a set that fails emits nothing; delete(k) of a stored key
\* returns true, removes k and emits exactly ("del", k); delete(k) of a key
\* not stored returns false, emits nothing and changes nothing.
C12_SetAndDelEvents ==
    [][\A k \in Keys :
        /\ (StepOf("set", k) /\ last'.ret = "ok") =>
              /\ MapHas(store', k)
              /\ EventsOf(events', "set") = << <<"set", k, MapGet(store', k).value>> >>
              /\ events'[Len(events')][1] = "set"
              /\ \A i \in 1..(Len(events') - 1) :
                    /\ events'[i][1] = "del"
                    /\ MapHas(store, events'[i][2])
                    /\ ~MapHas(store', events'[i][2])
        /\ (StepOf("set", k) /\ last'.ret # "ok") => events' = << >>
        /\ (StepOf("delete", k) /\ MapHas(store, k)) =>
              /\ last'.ret = "true"
              /\ events' = << <<"del", k>> >>
              /\ store' = MapDelete(store, k)
        /\ (StepOf("delete", k) /\ ~MapHas(store, k)) =>
              /\ last'.ret = "false"
              /\ events' = << >>
              /\ UNCHANGED <<store, stats, tagMap, head, tail, nodes>>]_vars

C12_Witness ==
    /\ variant = "tag"
    /\ last.op = "delete" /\ last.key = "b" /\ last.ret = "true"
    /\ events = << <<"del", "b">> >>
    /\ Len(store) = 1
    /\ DOMAIN tagMap = {"t1"}

\* an entry is live iff it has no TTL or now < createdAt + ttl
Live(entry, t) == entry.ttl = << >> \/ t < entry.createdAt + entry.ttl[1]

\* C13: the counters start at zero; a get(k) or has(k) adds one to hits and
\* leaves misses when k is stored and live, and adds one to misses and leaves
\* hits when k is missing or stored and not live; no other call of the base
\* store changes either counter; getStats().keys is the number of entries
\* physically stored.
C13_StatsStep ==
    /\ \A k \in Keys :
          (StepOf("get", k) \/ StepOf("has", k)) =>
              IF MapHas(store, k) /\ Live(MapGet(store, k), now)
              THEN getStats'.hits = getStats.hits + 1 /\ getStats'.misses = getStats.misses
              ELSE getStats'.misses = getStats.misses + 1 /\ getStats'.hits = getStats.hits
    /\ last'.op \notin {"get", "has"} =>
          getStats'.hits = getStats.hits /\ getStats'.misses = getStats.misses

C13_StatsCountLookups ==
    /\ (last.op = "new" => getStats.hits = 0 /\ getStats.misses = 0)
    /\ [](getStats.keys = Cardinality(MapKeys(store)))
    /\ [][C13_StatsStep]_vars

\* C14: a flush leaves the store as it is and writes a file from which
\* loadFromDisk, with the same encryption flag and secret, returns the stored
\* entries: the same keys in the same order, each with the same value, ttl
\* (absent stays absent), tag set, history and createdAt; an instance built
\* from that file right after the flush has the same options and holds
\* exactly those entries.
C14_FlushThenLoadRoundTrip ==
    [][/\ last'.op = "flush" =>
            /\ store' = store
            /\ loadFromDisk_Throws(disk', options.encryption, options.secretKey) = Null
            /\ loadFromDisk(disk', options.encryption, options.secretKey) = <<store>>
       /\ (last.op = "flush" /\ last'.op = "new" /\ last'.ret = Undefined) =>
            /\ options' = options
            /\ store' = store]_vars

C14_Witness ==
    /\ last.op = "new" /\ last.ret = Undefined
    /\ options.encryption
    /\ disk # << >>
    /\ Len(store) = 1
    /\ store[1].value = "v2" /\ store[1].history = <<"v1">>
    /\ store[1].ttl = << >>
    /\ store[1].tags = {"t1", "t2"}
    /\ store[1].createdAt > 0

\* C15: a set(k, v, ttl) that succeeds (a set step on k that leaves the store
\* of that call) stores the ttl argument if given, else stdTTL,
\* in milliseconds, and no TTL when that is zero (set(k, v, 0) even with
\* stdTTL > 0, set(k, v) with stdTTL = 0).  An entry stored without TTL has
\* getTTL(k) absent; get(k) returns its value at any time; sweepExpired and
\* every call other than set(k), delete(k) and clear() leave it stored as it
\* is.
C15_NoTTLState ==
    \A i \in 1..Len(store) : store[i].ttl = << >> => getTTL(store[i].key) = << >>

C15_EffectiveTTLStep ==
    /\ (last'.op = "set" /\ last'.ret = "ok") =>
          \A v \in Values, ttl \in TtlArgs :
              (events' = << <<"set", last'.key, v>> >>
                 /\ store' = this_set(This, last'.key, v, ttl, << >>).store) =>
                  LET effective == IF ttl = << >> THEN options.stdTTL ELSE ttl[1]
                  IN  /\ MapHas(store', last'.key)
                      /\ MapGet(store', last'.key).value = v
                      /\ MapGet(store', last'.key).ttl =
                            IF effective = 0 THEN << >> ELSE <<effective * MsPerSec>>
    /\ (last'.op \in {"get", "has"} /\ MapHas(store, last'.key)) =>
          LET entry == MapGet(store, last'.key)
          IN  entry.ttl = << >> =>
                  last'.ret = IF last'.op = "get" THEN entry.value ELSE "true"
    /\ last'.op # "clear" =>
          \A i \in 1..Len(store) :
              ( /\ store[i].ttl = << >>
                /\ ~(last'.op \in {"set", "delete"} /\ last'.key = store[i].key) ) =>
                  (MapHas(store', store[i].key) /\ MapGet(store', store[i].key) = store[i])

C15_ZeroTTLNeverExpires == []C15_NoTTLState /\ [][C15_EffectiveTTLStep]_vars

C15_Witness ==
    /\ options.stdTTL = 1 /\ options.deleteOnExpire
    /\ now = MaxNow
    /\ last.op = "sweepExpired"
    /\ stats.hits = 1
    /\ MapHas(store, "b")
    /\ MapGet(store, "b").ttl = << >>
    /\ MapGet(store, "b").createdAt = 0

\* C16: on an LRUCache started empty, after every call (set, get, has,
\* delete, clear, sweepExpired, at any time, deleteOnExpire on or off) the
\* keys of the key->node lookup are exactly the keys stored, one node each.
C16_NodesAreStoredKeys ==
    /\ DOMAIN nodes = MapKeys(store)
    /\ Cardinality(DOMAIN nodes) = Len(store)

C16_Witness ==
    /\ variant = "lru"
    /\ options.deleteOnExpire
    /\ last.op = "get" /\ last.key = "a" /\ last.ret = Undefined
    /\ events = << <<"del", "a">> >>
    /\ DOMAIN nodes = {"b"}
    /\ head = "b" /\ tail = "b"

\* the least integer q with q * d >= n, for n > 0
Ceiling(n, d) == CHOOSE q \in 1..n : q * d >= n /\ (q - 1) * d < n

\* C17: getTTL(k) returns ceil((createdAt + ttl - now) / 1000), a whole
\* number >= 1, when k is stored with a TTL and createdAt + ttl - now > 0,
\* and absent when k is not stored, has no TTL or has expired; it changes
\* neither the store nor the counters and emits nothing.
C17_GetTTLCeiling ==
    [][\A k \in Keys :
        StepOf("getTTL", k) =>
            /\ UNCHANGED <<store, stats, tagMap, head, tail, nodes>>
            /\ events' = << >>
            /\ IF MapHas(store, k) /\ MapGet(store, k).ttl # << >>
                  /\ MapGet(store, k).createdAt + MapGet(store, k).ttl[1] - now > 0
               THEN /\ last'.out =
                         <<Ceiling(MapGet(store, k).createdAt + MapGet(store, k).ttl[1] - now,
                                   MsPerSec)>>
                    /\ last'.out[1] >= 1
               ELSE last'.out = << >>]_vars

\* half a second before the deadline the remaining time is reported as 1
C17_Witness ==
    /\ last.op = "getTTL" /\ last.key = "a"
    /\ last.out = <<1>>
    /\ MapHas(store, "a")
    /\ MapGet(store, "a").createdAt + MapGet(store, "a").ttl[1] - now = TickMs

\* C18: on every class, clear() raises nothing and leaves the store without
\* entries, the tag index without tags, head and tail null and no node
\* tracked; a clear() right after a clear() leaves that same state.
C18_ClearIdempotent ==
    [][last'.op = "clear" =>
          /\ last'.ret = Undefined
          /\ store' = << >>
          /\ getStats'.keys = 0
          /\ DOMAIN tagMap' = {}
          /\ head' = Null /\ tail' = Null
          /\ DOMAIN nodes' = {}
          /\ last.op = "clear" => UNCHANGED <<store, stats, tagMap, head, tail, nodes>>]_vars

C18_Witness ==
    /\ variant = "tag"
    /\ last.op = "clear"
    /\ events = << <<"clear">> >>
    /\ stats.hits = MaxLookups
    /\ store = << >>
    /\ DOMAIN tagMap = {}

\* C19: a get(k) or has(k) of a stored entry that is not live returns absent
\* (has: false) and adds one to misses only; with deleteOnExpire enabled the
\* entry is removed and no event of any kind is emitted; with deleteOnExpire
\* disabled the store is left as it is.
C19_LazyExpiryIsSilent ==
    [][\A k \in Keys :
        ( /\ StepOf("get", k) \/ StepOf("has", k)
          /\ MapHas(store, k)
          /\ ~Live(MapGet(store, k), now) ) =>
            /\ last'.ret = IF last'.op = "get" THEN Undefined ELSE "false"
            /\ stats'.misses = stats.misses + 1
            /\ stats'.hits = stats.hits
            /\ store' = IF options.deleteOnExpire THEN MapDelete(store, k) ELSE store
            /\ events' = << >>]_vars

RECURSIVE ListFrom(_, _, _)
\* the keys of the recency list from node k on, following next, at most n of them
ListFrom(nm, k, n) ==
    IF k = Null \/ n = 0 THEN << >> ELSE <<k>> \o ListFrom(nm, nm[k].next, n - 1)

\* the recency order: the keys from head to tail
Order(h, nm) == ListFrom(nm, h, Cardinality(DOMAIN nm))

\* C20: on an LRUCache started empty, a get(k) that returns a value makes k
\* the head of the recency list and keeps the other keys in the order they
\* had; a get(k) that returns absent for a key that is not stored, or that is
\* stored and expired with deleteOnExpire disabled, leaves the list as it was.
C20_GetHitMovesToHead ==
    [][\A k \in Keys :
        StepOf("get", k) =>
            /\ last'.ret # Undefined =>
                  Order(head', nodes') =
                      <<k>> \o SelectSeq(Order(head, nodes), LAMBDA x : x # k)
            /\ (last'.ret = Undefined /\ (~MapHas(store, k) \/ ~options.deleteOnExpire)) =>
                  /\ Order(head', nodes') = Order(head, nodes)
                  /\ UNCHANGED <<head, tail, nodes>>]_vars

C20_Witness ==
    /\ variant = "lru"
    /\ last.op = "get" /\ last.key = "a" /\ last.ret = "v1"
    /\ stats.hits = 1 /\ stats.misses = 0
    /\ Order(head, nodes) = <<"a", "c", "b">>
    /\ tail = "b"

\* C21: on an LRUCache, after every call the recency list is a well-formed
\* doubly-linked list: head is null iff tail is null iff no node is tracked;
\* head has no prev and tail has no next; following next from head visits
\* every tracked node exactly once and ends at tail; a.next = b iff
\* b.prev = a.  This covers promoting the head again and removing the node
\* that is both head and tail.
C21_ListWellFormed ==
    /\ (head = Null) = (tail = Null)
    /\ (head = Null) = (DOMAIN nodes = {})
    /\ head # Null => head \in DOMAIN nodes /\ nodes[head].prev = Null
    /\ tail # Null => tail \in DOMAIN nodes /\ nodes[tail].next = Null
    /\ \A a \in DOMAIN nodes :
          /\ nodes[a].next \in DOMAIN nodes \cup {Null}
          /\ nodes[a].prev \in DOMAIN nodes \cup {Null}
    /\ \A a, b \in DOMAIN nodes : (nodes[a].next = b) = (nodes[b].prev = a)
    /\ LET order == Order(head, nodes)
       IN  /\ Len(order) = Cardinality(DOMAIN nodes)
           /\ SetOf(order) = DOMAIN nodes
           /\ order # << >> => order[Len(order)] = tail

\* with size 1, a set of a new key has evicted the node that was both head
\* and tail, and the new node is both
C21_Witness ==
    /\ variant = "lru"
    /\ options.size = 1
    /\ last.op = "set" /\ last.key = "b" /\ last.ret = "ok"
    /\ events = << <<"del", "a">>, <<"set", "b", "v1">> >>
    /\ head = "b" /\ tail = "b"
    /\ DOMAIN nodes = {"b"}
    /\ nodes["b"] = [prev |-> Null, next |-> Null]

\* C22: on TagCache started empty, in every state reached by set,
\* addTagToKey, get/has, delete, deleteTag, clear and sweepExpired with time
\* advancing, every tag of every stored entry has a tag-set in the index and
\* that tag-set contains the entry's key; and no tag-set of the index is empty.
C22_StoredTagsAreIndexed ==
    /\ \A i \in 1..Len(store) :
          \A t \in store[i].tags : TagMapHas(tagMap, t) /\ store[i].key \in tagMap[t]
    /\ \A t \in DOMAIN tagMap : tagMap[t] # {}

\* a sweep has removed the expired "a" and left it in the index beside "b",
\* which is stored with both tags
C22_Witness ==
    /\ variant = "tag"
    /\ last.op = "sweepExpired"
    /\ events = << <<"expired", "a", "v1">> >>
    /\ MapKeys(store) = {"b"}
    /\ MapGet(store, "b").tags = {"t1", "t2"}
    /\ tagMap = [t \in {"t1", "t2"} |-> IF t = "t1" THEN {"a", "b"} ELSE {"b"}]

\* the keys indexed under tag t whose get returns a value
Present(t) ==
    {k \in getKeysByTag(t) : MapHas(store, k) /\ ~Expired(MapGet(store, k), now)}

\* the keys indexed under tag t that get finds stored and expired
Lapsed(t) ==
    {k \in getKeysByTag(t) : MapHas(store, k) /\ Expired(MapGet(store, k), now)}

\* out holds the values of the keys of ks, one each, in some order
ValuesOf(out, ks) ==
    /\ Len(out) = Cardinality(ks)
    /\ \A v \in Values :
          Len(SelectSeq(out, LAMBDA x : x = v)) =
              Cardinality({k \in ks : MapGet(store, k).value = v})

\* the index without the keys of gone under the tags their stored entries carry
Pruned(tm, gone) ==
    LET rest(u) == tm[u] \ {k \in gone : u \in MapGet(store, k).tags}
    IN  [u \in {x \in DOMAIN tm : rest(x) # {}} |-> rest(u)]

C24_SavesAreAtomic ==
    /\ loadFromDisk_Throws(disk, options.encryption, options.secretKey) = Null
    /\ last.op \in {"flush", "backup"} => last.ret = Undefined /\ last.out = << >>

\* C24, first half alone: the snapshot file is never a partial one
C24_FileIsWhole == disk = << >> \/ disk[1].whole

\* C24, second half alone: no overlapping save ends with an error
C24_SavesEndWell ==
    last.op \in {"flush", "backup"} => last.ret = Undefined /\ last.out = << >>

\* C25: the bytes a save writes (for flush() or for a backup) are the
\* serialized Store as it was when the save was called, whatever set, delete
\* or clear calls are made before its promise settles, and whether or not
\* the persistence folder existed at the call.
C25_SnapshotIsStoreAtCall ==
    \A i \in 1..Len(io.saves) :
        io.saves[i].buf # << >> => io.saves[i].buf[1] = io.saves[i].called

\* C26: when a save ends with a failure (a failed file-system call, or a
\* rename that finds no temporary file), a backup started by sweepExpired
\* propagates nothing (the failure is logged) and flush() rejects with a
\* PersistenceError; in both cases the store, the counters, the indexes and
\* the timer are left as they were and no new save is started.
C26_SaveFailureHandling ==
    [][(/\ last'.op \in {"flush", "backup"}
        /\ ~(io.tmp # << >> /\ io'.tmp = << >>)) =>
            /\ UNCHANGED <<store, stats, tagMap, head, tail, nodes, checkInterval, disk>>
            /\ \E i \in 1..Len(io.saves) :
                  /\ io.saves[i].kind = last'.op
                  /\ io'.saves = Without(io.saves, i)
            /\ last'.op = "backup" =>
                  last'.ret = Undefined /\ last'.out = <<"backup failed">>
            /\ last'.op = "flush" =>
                  last'.ret = "PersistenceError"]_vars

\* the backup of a sweep that removed the expired "a" has failed: the store
\* stays empty and the tag index as the sweep left it, nothing was written,
\* no save is left in flight
C26_Witness ==
    /\ variant = "tag"
    /\ tagMap = [t \in {"t1"} |-> {"a"}]
    /\ last.op = "backup" /\ last.ret = Undefined /\ last.out = <<"backup failed">>
    /\ now = MaxNow
    /\ store = << >> /\ stats.keys = 0
    /\ io.saves = << >> /\ io.tmp = <<Torn>>
    /\ disk = << >>

\* C27: a TagCache or LRUCache constructed over a persisted snapshot has the
\* index of the loaded store: getKeysByTag(t) is exactly the set of loaded
\* keys whose tag set contains t; one recency node is tracked per loaded
\* key, and a later set of a new key at capacity evicts instead of raising.
C27_LoadedIndexIsDerived ==
    /\ (last.op = "new" /\ variant = "tag") =>
          \A t \in Tags :
              getKeysByTag(t) = {k \in MapKeys(store) : t \in MapGet(store, k).tags}
    /\ (last.op = "new" /\ variant = "lru") =>
          /\ DOMAIN nodes = MapKeys(store)
          /\ store # << >> => tail # Null
    /\ (last.op = "set" /\ variant = "lru") => last.ret = "ok"

\* C27, TagCache alone
C27_LoadedTagIndex ==
    (last.op = "new" /\ variant = "tag") =>
        \A t \in Tags :
            getKeysByTag(t) = {k \in MapKeys(store) : t \in MapGet(store, k).tags}

\* C27, LRUCache alone
C27_LoadedRecencyList ==
    /\ (last.op = "new" /\ variant = "lru") => DOMAIN nodes = MapKeys(store)
    /\ (last.op = "set" /\ variant = "lru") => last.ret = "ok"

\* k is stored and its liveness has failed
Stale(k) == MapHas(store, k) /\ ~Live(MapGet(store, k), now)

\* the instance's timer has been cleared
Destroyed == checkInterval # << >> /\ checkInterval[1].cleared

\* C28: with checkperiod > 0 and deleteOnExpire enabled, while the timer
\* keeps firing and destroy() is not called, every stored entry whose
\* liveness has failed is eventually removed from the store by the timer's
\* sweepExpired, without a get/has on its key (the client here only writes,
\* and a write of the key replaces the entry by a live one); once destroy()
\* has been called the timer is cleared, stays cleared and never runs
\* sweepExpired again.
C28_TimerSweepsUntilDestroyed ==
    /\ \A k \in Keys : Stale(k) ~> (~Stale(k) \/ Destroyed)
    /\ [][/\ (last'.op = "destroy" /\ checkInterval # << >>) => Destroyed'
          /\ Destroyed => (Destroyed' /\ last'.op # "timer")]_vars

\* the timer has fired at its first due time and removed the expired "a"
C28_Witness ==
    /\ last.op = "timer"
    /\ events = << <<"expired", "a", "v1">> >>
    /\ now = MinCheckperiod * MsPerSec
    /\ ~MapHas(store, "a")
    /\ ~Destroyed

\* C29: on every class started empty and for every size the validation
\* accepts, the number of stored entries never exceeds the size.
C29_StoredNeverExceedsSize == 2 * Len(store) <= 2 * options.size + options.half

\* for the whole sizes the bound holds
C29_WholeSizesKeepBound == options.half = 0 => Len(store) <= options.size

\* a fractional size lets one entry more in than the size
C29_OverFractionalSize == options.half = 1 /\ Len(store) = options.size + 1

\* C30: on the base store the capacity test counts the stored entries,
\* expired or not, and a write purges nothing: set of a key not stored raises
\* the capacity error and changes nothing whenever size entries or more are
\* stored, and is accepted otherwise; every set keeps every entry stored
\* under another key as it was; and the number of stored entries only goes
\* down by delete, by clear, or by get (has reads through get) and
\* sweepExpired while deleteOnExpire is enabled.
C30_CapacityCountsStoredEntries ==
    [][/\ \A k \in Keys :
            StepOf("set", k) =>
                /\ ~MapHas(store, k) =>
                       IF Len(store) >= options.size
                       THEN last'.ret = "CacheError" /\ store' = store
                       ELSE last'.ret = "ok" /\ Len(store') = Len(store) + 1
                /\ \A i \in 1..Len(store) :
                       store[i].key # k =>
                           /\ MapHas(store', store[i].key)
                           /\ MapGet(store', store[i].key) = store[i]
       /\ Len(store') < Len(store) =>
            \/ last'.op \in {"delete", "clear"}
            \/ last'.op \in {"get", "has", "sweepExpired"} /\ options.deleteOnExpire]_vars

\* a store filled by writes with a TTL, all of them expired and none purged
\* (deleteOnExpire at its default for stdTTL = 0), refuses a new key
C30_Witness ==
    /\ variant = "store"
    /\ options.stdTTL = 0 /\ ~options.deleteOnExpire
    /\ last.op = "set" /\ last.ret = "CacheError" /\ ~MapHas(store, last.key)
    /\ Len(store) = options.size
    /\ \A i \in 1..Len(store) : Expired(store[i], now)
    /\ stats.misses > 0

====
